---------------------------- MODULE Spec2Model ----------------------------
(***************************************************************************)
(* State-machine model of Tellyo-mixer.cpp: the usage counters             *)
(* (CountUsers), the ports, the gain nodes (MatrixPoint) and the routing   *)
(* graph (Dsp) with its real-time process() and its control-path users.    *)
(***************************************************************************)
EXTENDS Integers, Sequences, FiniteSets, TLC

(* ----------------------------- bounds --------------------------------- *)
\* number of MatrixPoint objects that can ever be constructed
MaxNodes == 2
\* number of Dsp::refAll calls a behaviour may contain
MaxRefs == 1

\* the InputPort / OutputPort objects that can ever be constructed
InPorts == {101}
OutPorts == {201, 202}
Ports == InPorts \cup OutPorts
Nodes == 1..MaxNodes
Objs == Ports \cup Nodes
\* nullptr
Null == 0
\* block sizes handed to Dsp::process, sample values the backend delivers,
\* gain values the control path stores
BlockSizes == {1, 2}
Samples == {1, 2}
Gains == {1, 2}
\* the longest block
MaxFrames == CHOOSE m \in BlockSizes : \A b \in BlockSizes : b <= m

VARIABLES
    objState,       \* lifetime of every object: "unborn", "live", "dead"
    users_count_,   \* CountUsers::users_count_ of every object
    buffer_,        \* Port::buffer_: "uninit", "null", "cur" (this block's), "stale"
    mem,            \* the backend's sample buffer of every port
    input_,         \* MatrixPoint::input_  (a port or Null)
    output_,        \* MatrixPoint::output_ (a port or Null)
    gain_,          \* MatrixPoint::gain_
    inputs,         \* Dsp::inputs
    outputs,        \* Dsp::outputs
    matrix_points,  \* Dsp::matrix_points
    rtpc,           \* position of the real-time thread inside Dsp::process
    rtk,            \* index of the range-for it is in
    rti,            \* sample index i of MatrixPoint::process
    rtgain,         \* the local "gain" of MatrixPoint::process
    rtnode,         \* the MatrixPoint whose process() is running ("this")
    rtin,           \* the port behind the local in_buffer
    rtout,          \* the port behind the local out_buffer
    nframes,        \* argument of the running Dsp::process
    ctlpc,          \* position of the control thread inside Dsp::unrefAll
    fault,          \* "none", or how the program went wrong
    refCalls,       \* number of refAll calls so far
    unrefCalls,     \* number of unrefAll calls so far, counted up to 1
    refreshed,      \* history: updateBufferAddress calls per port in this block
    zeroed,         \* history: resetBuffer calls per port in this block
    wrote,          \* history: a gain node has accumulated in this block
    usedGains,      \* history: the gains applied by the running MatrixPoint::process
    stored,         \* history: every value stored into each node's gain_
    gainTouched     \* history: a gain was stored while this block was processed

vars == <<objState, users_count_, buffer_, mem, input_, output_, gain_,
          inputs, outputs, matrix_points, rtpc, rtk, rti, rtgain, rtnode, rtin,
          rtout, nframes, ctlpc, fault, refCalls, unrefCalls, refreshed, zeroed,
          wrote, usedGains, stored, gainTouched>>

objVars == <<objState, users_count_, input_, output_, gain_>>
dspVars == <<inputs, outputs, matrix_points>>
rtVars == <<rtpc, rtk, rti, rtgain, rtnode, rtin, rtout, nframes>>
bufVars == <<buffer_, mem>>
blockHist == <<refreshed, zeroed, wrote, usedGains, gainTouched>>
\* everything but fault: a step that goes wrong records how and changes nothing else
allButFault == <<objState, users_count_, buffer_, mem, input_, output_, gain_,
                 inputs, outputs, matrix_points, rtpc, rtk, rti, rtgain, rtnode,
                 rtin, rtout, nframes, ctlpc, refCalls, unrefCalls, refreshed,
                 zeroed, wrote, usedGains, stored, gainTouched>>

(* ----------------------------- helpers -------------------------------- *)
Range(s) == {s[k] : k \in 1..Len(s)}
Erase(s, x) == SelectSeq(s, LAMBDA e : e # x)
Silence == [k \in 1..MaxFrames |-> 0]
Live(x) == objState[x] = "live"

(* ----------------------------- CountUsers ----------------------------- *)
\* unsigned int users_count_ is kept as the representative of its value modulo
\* 2^32 that lies in -2^31 .. 2^31-1: 0 - 1 wraps to 2^32-1, written -1 here, and
\* every negative value stands for a counter above 2^31 (hasUsers is true of it).
incrementUsers(u, x) == [u EXCEPT ![x] = @ + 1]
\* mutant: the assertion is left out
decrementAssert_Off(u, x) == TRUE

\* assert(users_count_)
decrementAssert(u, x) == u[x] # 0
decrementUsers(u, x) == [u EXCEPT ![x] = @ - 1]
hasUsers(x) == users_count_[x] # 0

Init ==
    /\ objState = [x \in Objs |-> "unborn"]
    /\ users_count_ = [x \in Objs |-> 0]
    /\ buffer_ = [p \in Ports |-> "uninit"]
    /\ mem = [p \in Ports |-> Silence]
    /\ input_ = [n \in Nodes |-> Null]
    /\ output_ = [n \in Nodes |-> Null]
    /\ gain_ = [n \in Nodes |-> 0]
    /\ inputs = <<>>
    /\ outputs = <<>>
    /\ matrix_points = <<>>
    /\ rtpc = "idle"
    /\ rtk = 0
    /\ rti = 0
    /\ rtgain = 0
    /\ rtnode = Null
    /\ rtin = Null
    /\ rtout = Null
    /\ nframes = 0
    /\ ctlpc = "idle"
    /\ fault = "none"
    /\ refCalls = 0
    /\ unrefCalls = 0
    /\ refreshed = [p \in Ports |-> 0]
    /\ zeroed = [p \in Ports |-> 0]
    /\ wrote = FALSE
    /\ usedGains = {}
    /\ stored = [n \in Nodes |-> {}]
    /\ gainTouched = FALSE

(* ------------------- the real-time thread's iterators ------------------ *)
\* mutant: the gain nodes are processed before the outputs are refreshed and zeroed
PhaseAfter_PointsFirst(ph) ==
    CASE ph = "inputs" -> "points"
      [] ph = "points" -> "outputs"
      [] ph = "outputs" -> "done"

\* Dsp::process: the order of its three range-for loops
PhaseAfter(ph) ==
    CASE ph = "inputs" -> "outputs"
      [] ph = "outputs" -> "points"
      [] ph = "points" -> "done"

\* the range-for of Dsp::process that is under way over each collection
IteratingInputs == rtpc = "inputs"
IteratingOutputs == rtpc = "outputs"
IteratingPoints == rtpc \in {"points", "samples"}

\* a step that goes wrong: assert fails ("assert"); a null pointer ("null"), a
\* destroyed object ("uaf") or an indeterminate pointer ("wild") is dereferenced,
\* with "rt_" before it when the real-time thread does so; or a vector is
\* changed under the real-time thread's iterators ("race").  What the program
\* does after undefined behaviour is not followed.
Trap(kind) == fault' = kind /\ UNCHANGED allButFault

(* ------------------------- control path: ports ------------------------- *)
\* new InputPort(name); inputs.push_back(port)
AddInput(p) ==
    /\ fault = "none" /\ ctlpc = "idle"
    /\ p \in InPorts /\ objState[p] = "unborn"
    /\ IF IteratingInputs THEN Trap("race")
       ELSE /\ objState' = [objState EXCEPT ![p] = "live"]
            /\ inputs' = Append(inputs, p)
            /\ UNCHANGED <<users_count_, bufVars, input_, output_, gain_, outputs,
                           matrix_points, rtVars, ctlpc, fault, refCalls,
                           unrefCalls, blockHist, stored>>

\* new OutputPort(name); outputs.push_back(port)
AddOutput(p) ==
    /\ fault = "none" /\ ctlpc = "idle"
    /\ p \in OutPorts /\ objState[p] = "unborn"
    /\ IF IteratingOutputs THEN Trap("race")
       ELSE /\ objState' = [objState EXCEPT ![p] = "live"]
            /\ outputs' = Append(outputs, p)
            /\ UNCHANGED <<users_count_, bufVars, input_, output_, gain_, inputs,
                           matrix_points, rtVars, ctlpc, fault, refCalls,
                           unrefCalls, blockHist, stored>>

\* Port::~Port: jack_port_unregister, whatever users_count_ holds
PortDtorRuns(p) == TRUE

\* erase the port from its collection; delete port
RemovePort(p) ==
    /\ fault = "none" /\ ctlpc = "idle"
    /\ p \in Ports /\ Live(p)
    /\ PortDtorRuns(p)
    /\ IF \/ IteratingInputs /\ p \in Range(inputs)
          \/ IteratingOutputs /\ p \in Range(outputs)
         THEN Trap("race")
         ELSE /\ objState' = [objState EXCEPT ![p] = "dead"]
              /\ users_count_' = [users_count_ EXCEPT ![p] = 0]
              /\ buffer_' = [buffer_ EXCEPT ![p] = "uninit"]
              /\ mem' = [mem EXCEPT ![p] = Silence]
              /\ inputs' = Erase(inputs, p)
              /\ outputs' = Erase(outputs, p)
              /\ UNCHANGED <<input_, output_, gain_, matrix_points, rtVars, ctlpc,
                             fault, refCalls, unrefCalls, blockHist, stored>>

(* ------------------------- control path: nodes ------------------------- *)
\* mutant: a pair that is already connected is not counted again
MatrixPointCtorUsers_Once(u, i, o) ==
    IF u[i] > 0 /\ u[o] > 0 THEN u ELSE incrementUsers(incrementUsers(u, i), o)

\* MatrixPoint::MatrixPoint(input, output, gain)
MatrixPointCtorUsers(u, i, o) == incrementUsers(incrementUsers(u, i), o)

\* new MatrixPoint(input, output, gain); matrix_points.push_back(point)
Connect(n, i, o, g) ==
    /\ fault = "none" /\ ctlpc = "idle"
    /\ n \in Nodes /\ objState[n] = "unborn"
    /\ i \in InPorts /\ o \in OutPorts /\ Live(i) /\ Live(o)
    /\ IF IteratingPoints THEN Trap("race")
       ELSE /\ objState' = [objState EXCEPT ![n] = "live"]
            /\ input_' = [input_ EXCEPT ![n] = i]
            /\ output_' = [output_ EXCEPT ![n] = o]
            /\ gain_' = [gain_ EXCEPT ![n] = g]
            /\ stored' = [stored EXCEPT ![n] = {g}]
            /\ users_count_' = MatrixPointCtorUsers(users_count_, i, o)
            /\ matrix_points' = Append(matrix_points, n)
            /\ UNCHANGED <<bufVars, inputs, outputs, rtVars, ctlpc, fault,
                           refCalls, unrefCalls, blockHist>>

\* what dereferencing the two ports of a node does to the program
DerefFault(n) ==
    IF input_[n] = Null \/ output_[n] = Null THEN "null"
    ELSE IF ~Live(input_[n]) \/ ~Live(output_[n]) THEN "uaf"
    ELSE "none"

\* mutant: the copy constructor counts the input port only
MatrixPointCopyUsers_InputOnly(u, i, o) == incrementUsers(u, i)

\* MatrixPoint::MatrixPoint(const MatrixPoint& copyfrom)
MatrixPointCopyUsers(u, i, o) == incrementUsers(incrementUsers(u, i), o)

CopyNode(src, dst) ==
    /\ fault = "none" /\ ctlpc = "idle"
    /\ src \in Nodes /\ dst \in Nodes /\ Live(src) /\ objState[dst] = "unborn"
    /\ IF DerefFault(src) # "none" THEN Trap(DerefFault(src))
       ELSE /\ objState' = [objState EXCEPT ![dst] = "live"]
            /\ input_' = [input_ EXCEPT ![dst] = input_[src]]
            /\ output_' = [output_ EXCEPT ![dst] = output_[src]]
            /\ gain_' = [gain_ EXCEPT ![dst] = gain_[src]]
            /\ stored' = [stored EXCEPT ![dst] = {gain_[src]}]
            /\ users_count_' = MatrixPointCopyUsers(users_count_, input_[src], output_[src])
            /\ UNCHANGED <<bufVars, dspVars, rtVars, ctlpc, fault, refCalls,
                           unrefCalls, blockHist>>

\* mutant: the move constructor counts its references as the copy constructor does
MatrixPointMoveUsers_Counting(u, i, o) ==
    IF i = Null \/ o = Null THEN u ELSE incrementUsers(incrementUsers(u, i), o)

\* MatrixPoint::MatrixPoint(MatrixPoint&& movefrom): no counter is touched
MatrixPointMoveUsers(u, i, o) == u

MoveNode(src, dst) ==
    /\ fault = "none" /\ ctlpc = "idle"
    /\ src \in Nodes /\ dst \in Nodes /\ Live(src) /\ objState[dst] = "unborn"
    /\ objState' = [objState EXCEPT ![dst] = "live"]
    /\ input_' = [input_ EXCEPT ![dst] = input_[src], ![src] = Null]
    /\ output_' = [output_ EXCEPT ![dst] = output_[src], ![src] = Null]
    /\ gain_' = [gain_ EXCEPT ![dst] = gain_[src]]
    /\ stored' = [stored EXCEPT ![dst] = {gain_[src]}]
    /\ users_count_' = MatrixPointMoveUsers(users_count_, input_[src], output_[src])
    /\ UNCHANGED <<bufVars, dspVars, rtVars, ctlpc, fault, refCalls, unrefCalls,
                   blockHist>>

\* mutant: the destructor forgets the output port
DtorTargets_InputOnly(n) == IF input_[n] # Null THEN <<input_[n]>> ELSE <<>>

\* MatrixPoint::~MatrixPoint: the ports it calls decrementUsers on, in order
DtorTargets(n) ==
    (IF input_[n] # Null THEN <<input_[n]>> ELSE <<>>)
      \o (IF output_[n] # Null THEN <<output_[n]>> ELSE <<>>)

\* decrementUsers on each object of s in turn, stopping at the first that goes
\* wrong: a destroyed object ("uaf") or a zero counter ("assert")
RECURSIVE DecrementEach(_, _)
DecrementEach(s, u) ==
    IF s = <<>> THEN [u |-> u, fault |-> "none"]
    ELSE IF ~Live(Head(s)) THEN [u |-> u, fault |-> "uaf"]
    ELSE IF ~decrementAssert(u, Head(s)) THEN [u |-> u, fault |-> "assert"]
    ELSE DecrementEach(Tail(s), decrementUsers(u, Head(s)))

\* matrix_points.erase(point) where the graph holds it; delete point
Disconnect(n) ==
    /\ fault = "none" /\ ctlpc = "idle"
    /\ n \in Nodes /\ Live(n)
    /\ LET r == DecrementEach(DtorTargets(n), users_count_) IN
         IF r.fault # "none" THEN Trap(r.fault)
         ELSE IF IteratingPoints /\ n \in Range(matrix_points) THEN Trap("race")
         ELSE /\ users_count_' = [r.u EXCEPT ![n] = 0]
              /\ objState' = [objState EXCEPT ![n] = "dead"]
              /\ input_' = [input_ EXCEPT ![n] = Null]
              /\ output_' = [output_ EXCEPT ![n] = Null]
              /\ gain_' = [gain_ EXCEPT ![n] = 0]
              /\ stored' = [stored EXCEPT ![n] = {}]
              /\ matrix_points' = Erase(matrix_points, n)
              /\ UNCHANGED <<bufVars, inputs, outputs, rtVars, ctlpc, fault,
                             refCalls, unrefCalls, blockHist>>

\* MatrixPoint::setGain: gain_.store(gain)
StoreGain(old, v) == v

SetGain(n, v) ==
    /\ fault = "none"
    /\ n \in Nodes /\ Live(n) /\ v \in Gains
    /\ gain_' = [gain_ EXCEPT ![n] = StoreGain(@, v)]
    /\ stored' = [stored EXCEPT ![n] = @ \cup {v}]
    /\ gainTouched' = (rtpc # "idle")
    /\ UNCHANGED <<objState, users_count_, input_, output_, bufVars, dspVars,
                   rtVars, ctlpc, fault, refCalls, unrefCalls, refreshed, zeroed,
                   wrote, usedGains>>

(* --------------------- control path: refAll, unrefAll ------------------ *)
RECURSIVE IncrementEach(_, _)
IncrementEach(s, u) ==
    IF s = <<>> THEN u ELSE IncrementEach(Tail(s), incrementUsers(u, Head(s)))

\* Dsp::refAll
RefAll ==
    /\ fault = "none" /\ ctlpc = "idle"
    /\ refCalls < MaxRefs
    /\ refCalls' = refCalls + 1
    /\ users_count_' = IncrementEach(inputs \o outputs \o matrix_points, users_count_)
    /\ UNCHANGED <<objState, input_, output_, gain_, bufVars, dspVars, rtVars,
                   ctlpc, fault, unrefCalls, blockHist, stored>>

\* Dsp::unrefAll, clr(inputs)
UnrefInputs ==
    /\ fault = "none" /\ ctlpc = "idle"
    /\ LET r == DecrementEach(inputs, users_count_) IN
         IF r.fault # "none" THEN Trap(r.fault)
         ELSE IF IteratingInputs THEN Trap("race")
         ELSE /\ users_count_' = r.u
              /\ inputs' = <<>>
              /\ ctlpc' = "clr_outputs"
              /\ unrefCalls' = 1
              /\ UNCHANGED <<objState, input_, output_, gain_, bufVars, outputs,
                             matrix_points, rtVars, fault, refCalls, blockHist,
                             stored>>

\* Dsp::unrefAll, clr(outputs)
UnrefOutputs ==
    /\ fault = "none" /\ ctlpc = "clr_outputs"
    /\ LET r == DecrementEach(outputs, users_count_) IN
         IF r.fault # "none" THEN Trap(r.fault)
         ELSE IF IteratingOutputs THEN Trap("race")
         ELSE /\ users_count_' = r.u
              /\ outputs' = <<>>
              /\ ctlpc' = "clr_points"
              /\ UNCHANGED <<objState, input_, output_, gain_, bufVars, inputs,
                             matrix_points, rtVars, fault, refCalls, unrefCalls,
                             blockHist, stored>>

\* Dsp::unrefAll, clr(matrix_points)
UnrefPoints ==
    /\ fault = "none" /\ ctlpc = "clr_points"
    /\ LET r == DecrementEach(matrix_points, users_count_) IN
         IF r.fault # "none" THEN Trap(r.fault)
         ELSE IF IteratingPoints THEN Trap("race")
         ELSE /\ users_count_' = r.u
              /\ matrix_points' = <<>>
              /\ ctlpc' = "idle"
              /\ UNCHANGED <<objState, input_, output_, gain_, bufVars, inputs,
                             outputs, rtVars, fault, refCalls, unrefCalls,
                             blockHist, stored>>

\* the control path's changes of the graph's topology
Topology ==
    \/ \E p \in InPorts : AddInput(p)
    \/ \E p \in OutPorts : AddOutput(p)
    \/ \E p \in Ports : RemovePort(p)
    \/ \E n \in Nodes, i \in InPorts, o \in OutPorts, g \in Gains : Connect(n, i, o, g)
    \/ \E n \in Nodes : Disconnect(n)
    \/ UnrefInputs
    \/ UnrefOutputs
    \/ UnrefPoints

\* the control path's operations that touch only counters and node references
Lifetime ==
    \/ \E s \in Nodes, d \in Nodes : CopyNode(s, d)
    \/ \E s \in Nodes, d \in Nodes : MoveNode(s, d)
    \/ RefAll

Control == Topology \/ Lifetime

\* the control path's gain changes
GainControl == \E n \in Nodes, v \in Gains : SetGain(n, v)

\* the topology and lifetime operations alone: the program while the backend
\* makes no callback and no gain is adjusted
SpecCtl == Init /\ [][Control]_vars

(* ---------------------- real-time path: Dsp::process ------------------- *)
\* what the backend can hold in a buffer of nf samples
Contents(nf) ==
    {c \in [1..MaxFrames -> Samples \cup {0}] :
        \A k \in 1..MaxFrames : (c[k] = 0) <=> (k > nf)}
Residues(nf) ==
    {c \in [1..MaxFrames -> Samples \cup {0}] : \A k \in 1..MaxFrames : k > nf => c[k] = 0}

\* the backend calls Dsp::process(nf)
ProcessBegin(nf) ==
    /\ fault = "none" /\ rtpc = "idle"
    /\ nf \in BlockSizes
    /\ rtpc' = "inputs"
    /\ rtk' = 1
    /\ nframes' = nf
    /\ UNCHANGED <<objState, users_count_, bufVars, input_, output_, gain_,
                   dspVars, rti, rtgain, rtnode, rtin, rtout, ctlpc, fault,
                   refCalls, unrefCalls, blockHist, stored>>

\* for (InputPort* port: inputs) port->updateBufferAddress(nframes);
\* jack_port_get_buffer hands back this block's buffer, or NULL
ProcessInput ==
    /\ fault = "none" /\ rtpc = "inputs"
    /\ IF rtk <= Len(inputs)
         THEN \E ptr \in {"cur", "null"}, c \in Contents(nframes) :
                LET p == inputs[rtk] IN
                  /\ buffer_' = [buffer_ EXCEPT ![p] = ptr]
                  /\ mem' = [mem EXCEPT ![p] = IF ptr = "cur" THEN c ELSE Silence]
                  /\ refreshed' = [refreshed EXCEPT ![p] = @ + 1]
                  /\ rtk' = rtk + 1
                  /\ rtpc' = rtpc
         ELSE /\ rtpc' = PhaseAfter("inputs")
              /\ rtk' = 1
              /\ UNCHANGED <<bufVars, refreshed>>
    /\ UNCHANGED <<objState, users_count_, input_, output_, gain_, dspVars, rti,
                   rtgain, rtnode, rtin, rtout, nframes, ctlpc, fault, refCalls,
                   unrefCalls, zeroed, wrote, usedGains, stored, gainTouched>>

\* mutant: the buffer is left as the backend handed it over
resetBuffer_Keep(buf, nf) == buf

\* OutputPort::resetBuffer: std::fill(buffer_, buffer_ + nframes, 0)
resetBuffer(buf, nf) == [k \in 1..MaxFrames |-> IF k <= nf THEN 0 ELSE buf[k]]

\* for (OutputPort* port: outputs) { port->updateBufferAddress(nframes);
\*                                   port->resetBuffer(nframes); }
\* the buffer handed back holds whatever was left in it; resetBuffer does not
\* look at buffer_ and fills through a null pointer
ProcessOutput ==
    /\ fault = "none" /\ rtpc = "outputs"
    /\ IF rtk <= Len(outputs)
         THEN \E ptr \in {"cur", "null"}, residue \in Residues(nframes) :
                LET p == outputs[rtk] IN
                  IF ptr = "null" THEN Trap("null")
                  ELSE /\ buffer_' = [buffer_ EXCEPT ![p] = ptr]
                       /\ mem' = [mem EXCEPT ![p] = resetBuffer(residue, nframes)]
                       /\ refreshed' = [refreshed EXCEPT ![p] = @ + 1]
                       /\ zeroed' = [zeroed EXCEPT ![p] = @ + 1]
                       /\ rtk' = rtk + 1
                       /\ UNCHANGED <<rtpc, fault>>
         ELSE /\ rtpc' = PhaseAfter("outputs")
              /\ rtk' = 1
              /\ UNCHANGED <<bufVars, refreshed, zeroed, fault>>
    /\ UNCHANGED <<objState, users_count_, input_, output_, gain_, dspVars, rti,
                   rtgain, rtnode, rtin, rtout, nframes, ctlpc, refCalls,
                   unrefCalls, wrote, usedGains, stored, gainTouched>>

\* Port::buffer(): assert(buffer_); return buffer_.  An uninitialised buffer_
\* reads as null or as any other address.
BufferOutcomes(p) ==
    CASE buffer_[p] = "null" -> {"assert"}
      [] buffer_[p] = "uninit" -> {"assert", "wild"}
      [] OTHER -> {"none"}

\* mutant: the load misses what setGain stored and yields the oldest stored value
LoadGain_Oldest(n) == CHOOSE g \in stored[n] : \A h \in stored[n] : g <= h

\* const float gain = gain_.load()
LoadGain(n) == gain_[n]

\* for (MatrixPoint* point: matrix_points) point->process(nframes): the call,
\* up to the first iteration of its sample loop (lines 103-115)
ProcessPoint ==
    /\ fault = "none" /\ rtpc = "points"
    /\ IF rtk <= Len(matrix_points)
         THEN LET n == matrix_points[rtk] IN
                IF ~Live(n) THEN Trap("rt_uaf")
                ELSE IF DerefFault(n) # "none" THEN Trap("rt_" \o DerefFault(n))
                ELSE \E fi \in BufferOutcomes(input_[n]), fo \in BufferOutcomes(output_[n]) :
                       IF fi # "none" THEN Trap(fi)
                       ELSE IF fo # "none" THEN Trap(fo)
                       ELSE /\ rtnode' = n
                            /\ rtin' = input_[n]
                            /\ rtout' = output_[n]
                            /\ rtgain' = LoadGain(n)
                            /\ rti' = 1
                            /\ rtpc' = "samples"
                            /\ usedGains' = {}
                            /\ UNCHANGED <<rtk, fault>>
         ELSE /\ rtpc' = PhaseAfter("points")
              /\ rtk' = 1
              /\ rtnode' = Null
              /\ usedGains' = {}
              /\ UNCHANGED <<rti, rtgain, rtin, rtout, fault>>
    /\ UNCHANGED <<objState, users_count_, bufVars, input_, output_, gain_,
                   dspVars, nframes, ctlpc, refCalls, unrefCalls, refreshed,
                   zeroed, wrote, stored, gainTouched>>

\* mutant: gain_ is loaded again in every iteration
SampleGain_Reload == gain_[rtnode]

\* the gain one iteration of the sample loop multiplies by: the local "gain"
SampleGain == rtgain

\* mutant: = in the place of +=
accumulate_Assign(out, g, in) == g * in

\* out_buffer[i] += gain * in_buffer[i]
accumulate(out, g, in) == out + g * in

\* mutant: the sum is written to the input port's buffer
out_buffer_Input == rtin

\* float * const in_buffer = input_->buffer(), out_buffer = output_->buffer():
\* the ports whose buffers the two locals point into
out_buffer == rtout
in_buffer == rtin

\* one iteration of the sample loop of MatrixPoint::process; after the last
\* one the call returns to the loop of Dsp::process
ProcessSample ==
    /\ fault = "none" /\ rtpc = "samples"
    /\ IF ~Live(rtin) \/ ~Live(rtout) THEN Trap("rt_uaf")
       ELSE /\ mem' = [mem EXCEPT ![out_buffer][rti] =
                         accumulate(@, SampleGain, mem[in_buffer][rti])]
            /\ usedGains' = usedGains \cup {SampleGain}
            /\ wrote' = TRUE
            /\ IF rti < nframes
                 THEN /\ rti' = rti + 1
                      /\ UNCHANGED <<rtpc, rtk, rtgain, rtnode, rtin, rtout>>
                 ELSE /\ rtpc' = "points"
                      /\ rtk' = rtk + 1
                      /\ rti' = 0
                      /\ rtgain' = 0
                      /\ rtin' = Null
                      /\ rtout' = Null
                      /\ UNCHANGED rtnode
            /\ UNCHANGED <<objState, users_count_, buffer_, input_, output_, gain_,
                           dspVars, nframes, ctlpc, fault, refCalls, unrefCalls,
                           refreshed, zeroed, stored, gainTouched>>

\* Dsp::process returns: the block is over, the buffers handed out for it are
\* no longer the ports' to use
ProcessReturn ==
    /\ fault = "none" /\ rtpc = "done"
    /\ rtpc' = "idle"
    /\ rtk' = 0
    /\ nframes' = 0
    /\ buffer_' = [p \in Ports |-> IF buffer_[p] = "cur" THEN "stale" ELSE buffer_[p]]
    /\ mem' = [p \in Ports |-> Silence]
    /\ refreshed' = [p \in Ports |-> 0]
    /\ zeroed' = [p \in Ports |-> 0]
    /\ wrote' = FALSE
    /\ usedGains' = {}
    /\ gainTouched' = FALSE
    /\ UNCHANGED <<objState, users_count_, input_, output_, gain_, dspVars, rti,
                   rtgain, rtnode, rtin, rtout, ctlpc, fault, refCalls,
                   unrefCalls, stored>>

RealTime ==
    \/ \E nf \in BlockSizes : ProcessBegin(nf)
    \/ ProcessInput
    \/ ProcessOutput
    \/ ProcessPoint
    \/ ProcessSample
    \/ ProcessReturn

\* every operation of the program, with nothing in the code to order the
\* control path against the real-time path
NextAll == Control \/ GainControl \/ RealTime

SpecAll == Init /\ [][NextAll]_vars

\* the real-time path against the control path's topology changes
Next == Topology \/ RealTime

Spec == Init /\ [][Next]_vars

\* a control path that keeps to the documented protocol: it changes the topology
\* only between two process() calls, connects only ports of the graph and
\* removes a port only after disconnecting the nodes that reference it; gains
\* are stored at any time
Referenced(p) == \E n \in Nodes : Live(n) /\ (input_[n] = p \/ output_[n] = p)
\* new MatrixPoint yields an object not seen before; which of the unused
\* identities stands for it makes no difference, so the lowest is taken
FreshNode(n) ==
    objState[n] = "unborn" /\ \A k \in Nodes : k < n => objState[k] # "unborn"

NextQ ==
    \/ rtpc = "idle" /\ \E p \in InPorts : AddInput(p)
    \/ rtpc = "idle" /\ \E p \in OutPorts : AddOutput(p)
    \/ rtpc = "idle" /\ \E p \in Ports : ~Referenced(p) /\ RemovePort(p)
    \/ rtpc = "idle" /\ \E n \in Nodes, i \in Range(inputs), o \in Range(outputs), g \in Gains :
                          FreshNode(n) /\ Connect(n, i, o, g)
    \/ rtpc = "idle" /\ \E n \in Nodes : Disconnect(n)
    \/ GainControl
    \/ RealTime

SpecQ == Init /\ [][NextQ]_vars

\* the same with the backend's real-time thread never starved: whenever a step
\* of Dsp::process can be taken it eventually is; no step of it waits on a lock
\* or on the control thread
SpecRT == Init /\ [][NextQ]_vars /\ WF_vars(RealTime)


(* ================================ claims ============================== *)
\* the live gain nodes whose input or output reference is port p
Referents(p) == {n \in Nodes : Live(n) /\ (input_[n] = p \/ output_[n] = p)}
NotActivated == refCalls = 0 /\ unrefCalls = 0

\* C1: while the graph has not been activated (no refAll, no unrefAll), after
\* any sequence of connect, disconnect, copy- and move-construction every live
\* port's usage counter equals the number of live gain nodes that reference it;
\* a moved-from node, whose references are null, references nothing.
C1_UsageCountIsReferents ==
    NotActivated =>
        \A p \in Ports : Live(p) => users_count_[p] = Cardinality(Referents(p))

\* a moved-from node is alive beside the node that took over its references,
\* and the port they were moved between is counted once
C1_Witness ==
    /\ NotActivated /\ fault = "none"
    /\ \E n \in Nodes : Live(n) /\ input_[n] = Null /\ output_[n] = Null
    /\ \E p \in Ports : Live(p) /\ Cardinality(Referents(p)) = 1 /\ users_count_[p] = 1

\* C2: Dsp::process never dereferences a port or gain node that has been
\* removed or destroyed, and never iterates inputs, outputs or matrix_points
\* while the control path changes that collection.
C2_ProcessNeverRaces == fault \notin {"race", "rt_uaf", "rt_null"}

\* C3: a port whose usage counter is non-zero is not destroyed by a removal,
\* and no live gain node references a destroyed port.
C3_ReferencedPortNotRemoved ==
    /\ [][\A p \in Ports :
             (Live(p) /\ hasUsers(p) /\ Referents(p) # {}) => Live(p)']_vars
    /\ [](\A n \in Nodes : Live(n) =>
             /\ input_[n] # Null => Live(input_[n])
             /\ output_[n] # Null => Live(output_[n]))

RECURSIVE MixOf(_, _, _)
MixOf(pts, o, i) ==
    IF pts = <<>> THEN 0
    ELSE (IF output_[Head(pts)] = o
            THEN gain_[Head(pts)] * mem[input_[Head(pts)]][i] ELSE 0)
         + MixOf(Tail(pts), o, i)

\* C5: when Dsp::process(n) has completed and neither the topology nor a gain
\* changed meanwhile, every output port's buffer holds at every index below n
\* the sum over the gain nodes targeting it of gain * input sample, whatever
\* the buffer held before the call.
C5_OutputIsMix ==
    (rtpc = "done" /\ ~gainTouched) =>
        \A o \in Range(outputs) : \A i \in 1..nframes :
            mem[o][i] = MixOf(matrix_points, o, i)

\* a block of two samples is done in which two gain nodes fed one output
C5_Witness ==
    /\ rtpc = "done" /\ ~gainTouched /\ nframes = 2 /\ fault = "none"
    /\ Len(matrix_points) = 2
    /\ output_[matrix_points[1]] = output_[matrix_points[2]]
    /\ mem[output_[matrix_points[1]]][2] > 0

\* C6: once a gain node has accumulated in a block, every port of inputs and
\* outputs has had its buffer pointer refreshed exactly once in that block and
\* every port of outputs has been zeroed exactly once; so all of it came
\* before the first accumulation and none of it comes after.
C6_RefreshAndZeroBeforeMix ==
    wrote =>
        /\ \A p \in Range(inputs) \cup Range(outputs) : refreshed[p] = 1
        /\ \A p \in Range(outputs) : zeroed[p] = 1
        /\ \A p \in Range(inputs) : zeroed[p] = 0

\* the second gain node of a block is accumulating, two outputs in the graph
C6_Witness ==
    /\ wrote /\ rtpc = "samples" /\ rtk = 2 /\ fault = "none"
    /\ Len(inputs) = 1 /\ Len(outputs) = 2

\* C7: all the samples one MatrixPoint::process call accumulates are scaled by
\* one gain value, and that value is one that was stored into the node (by its
\* constructor or by a setGain), under every interleaving of setGain calls.
C7_OneStoredGainPerBlock ==
    usedGains # {} =>
        /\ rtnode # Null
        /\ Cardinality(usedGains) = 1
        /\ usedGains \subseteq stored[rtnode]

\* a setGain landed between the load and the second sample, which still used
\* the value loaded
C7_Witness ==
    /\ rtpc = "samples" /\ rti = 2 /\ usedGains = {rtgain} /\ fault = "none"
    /\ gain_[rtnode] # rtgain

\* C8: the gain a node's process call works with differs from the node's
\* stored gain only when a setGain on that node came after the call's load; so
\* a setGain that completed before block K began (and was not overwritten) is
\* the value block K uses, and one that completes during block K is the value
\* block K+1 uses.
C8_GainVisibleNextLoad ==
    [][(rtpc' = "samples" /\ rtgain' # gain_'[rtnode']) =>
          /\ rtpc = "samples" /\ rtnode = rtnode'
          /\ rtgain # gain_[rtnode] \/ gain_'[rtnode] # gain_[rtnode]]_vars

\* a block works with a value that setGain stored before it began
C8_Witness ==
    /\ rtpc = "samples" /\ ~gainTouched /\ fault = "none"
    /\ Cardinality(stored[rtnode]) = 2
    /\ rtgain = gain_[rtnode]

\* C11: whenever Port::buffer() has handed out a pointer, which the running
\* MatrixPoint::process then works through, updateBufferAddress was called for
\* that port in the current block; a port that still caches an earlier block's
\* pointer, or was never refreshed, makes buffer() fail instead.
C11_BufferFailsBeforeRefresh ==
    /\ fault # "wild"
    /\ rtpc = "samples" => refreshed[rtin] >= 1 /\ refreshed[rtout] >= 1

\* C12: a null buffer pointer met inside Dsp::process never stops the call:
\* neither Port::buffer()'s assertion fails nor is the null pointer written
\* through; the node contributes silence and the call carries on.
C12_AnomalyDoesNotAbort ==
    rtpc \in {"outputs", "points", "samples"} => fault \notin {"assert", "null"}

\* two distinct live gain nodes of matrix_points connecting the same pair
SamePair(n, m) ==
    /\ n # m /\ Live(n) /\ Live(m)
    /\ input_[n] # Null /\ input_[n] = input_[m]
    /\ output_[n] # Null /\ output_[n] = output_[m]
    /\ \E k \in 1..Len(matrix_points), l \in 1..Len(matrix_points) :
          matrix_points[k] = n /\ matrix_points[l] = m

\* the gain nodes of matrix_points that target output o
Targeting(o) == {n \in Range(matrix_points) : output_[n] = o}

RECURSIVE SumGains(_)
SumGains(ns) ==
    IF ns = {} THEN 0
    ELSE LET n == CHOOSE x \in ns : TRUE IN gain_[n] + SumGains(ns \ {n})

\* the step is a setGain on node n that changed its gain; the step destroys x
GainStoredInto(n) == Live(n)' /\ gain_'[n] # gain_[n]
Destroyed(x) == Live(x) /\ objState'[x] = "dead"

\* C13: connecting the same (input, output) pair twice gives two gain nodes of
\* their own: each of the two ports is counted once per node; when a block is
\* done and no gain changed meanwhile, an output fed from one input by several
\* nodes holds (sum of their gains) * input; setGain on one node leaves every
\* other node's gain as it was; and disconnecting one of the two leaves the
\* other live, in matrix_points, with its references and gain, and lowers both
\* ports' counters by one.
C13_SamePairTwiceIsTwoNodes ==
    /\ [](\A n \in Nodes, m \in Nodes : (n < m /\ SamePair(n, m)) =>
            /\ users_count_[input_[n]] = Cardinality(Referents(input_[n]))
            /\ users_count_[output_[n]] = Cardinality(Referents(output_[n]))
            /\ users_count_[input_[n]] >= 2 /\ users_count_[output_[n]] >= 2)
    /\ []((rtpc = "done" /\ ~gainTouched) =>
            \A o \in Range(outputs), i \in Range(inputs) :
                (Targeting(o) # {} /\ \A n \in Targeting(o) : input_[n] = i) =>
                    \A k \in 1..nframes : mem[o][k] = SumGains(Targeting(o)) * mem[i][k])
    /\ [][\A n \in Nodes : (GainStoredInto(n) \/ Destroyed(n)) =>
          \A m \in Nodes : SamePair(n, m) =>
            /\ GainStoredInto(n) => gain_'[m] = gain_[m]
            /\ Destroyed(n) =>
                  /\ Live(m)' /\ m \in Range(matrix_points')
                  /\ input_'[m] = input_[m] /\ output_'[m] = output_[m]
                  /\ gain_'[m] = gain_[m]
                  /\ users_count_'[input_[m]] = users_count_[input_[m]] - 1
                  /\ users_count_'[output_[m]] = users_count_[output_[m]] - 1
                  /\ users_count_'[input_[m]] = Cardinality(Referents(input_[m]))']_vars

\* a block is done in which two nodes of one pair, one of them re-gained to a
\* value of its own, both fed the output
C13_Witness ==
    /\ rtpc = "done" /\ ~gainTouched /\ nframes = 2 /\ fault = "none"
    /\ \E n \in Nodes, m \in Nodes :
          /\ SamePair(n, m) /\ gain_[n] # gain_[m]
          /\ Cardinality(stored[n]) = 2 /\ Cardinality(stored[m]) = 1
          /\ mem[output_[n]][2] = (gain_[n] + gain_[m]) * mem[input_[n]][2]
          /\ users_count_[input_[n]] = 2

\* C14: when Dsp::process has completed, every output port of the graph that no
\* gain node of matrix_points targets holds zeros over the whole block, whatever
\* its buffer held when the backend handed it over.
C14_UntargetedOutputIsSilent ==
    rtpc = "done" =>
        \A o \in Range(outputs) :
            Targeting(o) = {} => \A k \in 1..nframes : mem[o][k] = 0

\* a block of two samples is done with one output fed by a node and another
\* output that nothing targets
C14_Witness ==
    /\ rtpc = "done" /\ nframes = 2 /\ fault = "none"
    /\ \E o \in Range(outputs), q \in Range(outputs) :
          /\ Targeting(o) = {} /\ zeroed[o] = 1
          /\ Targeting(q) # {} /\ mem[q][2] > 0

\* the objects Dsp::refAll and Dsp::unrefAll go through
Members == Range(inputs) \cup Range(outputs) \cup Range(matrix_points)
\* refAll has been called and no unrefAll yet
Active == refCalls >= 1 /\ unrefCalls = 0

\* C15: refAll raises by exactly one the counter of every object in inputs,
\* outputs and matrix_points and no other; each step of unrefAll that goes
\* through lowers by exactly one the counter of every object of its collection
\* and no other; and while the graph is active every live port's counter is
\* the number of live gain nodes referencing it, plus one.
C15_RefAllPinsEveryObject ==
    /\ [][/\ RefAll => \A x \in Objs :
                users_count_'[x] = users_count_[x] + (IF x \in Members THEN 1 ELSE 0)
          /\ (UnrefInputs /\ fault' = "none") => \A x \in Objs :
                users_count_'[x] = users_count_[x] - (IF x \in Range(inputs) THEN 1 ELSE 0)
          /\ (UnrefOutputs /\ fault' = "none") => \A x \in Objs :
                users_count_'[x] = users_count_[x] - (IF x \in Range(outputs) THEN 1 ELSE 0)
          /\ (UnrefPoints /\ fault' = "none") => \A x \in Objs :
                users_count_'[x] = users_count_[x] - (IF x \in Range(matrix_points) THEN 1 ELSE 0)]_vars
    /\ []((Active /\ fault = "none") =>
            \A p \in Ports : Live(p) => users_count_[p] = Cardinality(Referents(p)) + 1)

\* the counters of the ports other than those of set ps are left as they were
OtherPortsKept(ps) == \A p \in Ports \ ps : users_count_'[p] = users_count_[p]

\* C16: move-constructing a gain node changes no port's counter, hands the
\* source's references to the new node and leaves the source referencing
\* nothing; destroying a node that references nothing changes no port's
\* counter; copy-constructing raises the counters of both referenced ports by
\* exactly one and no other; destroying a node that holds references lowers
\* both by exactly one and no other.
C16_CopyMoveDestroyCounts ==
    [][\A s \in Nodes :
        /\ \A d \in Nodes : MoveNode(s, d) =>
              /\ OtherPortsKept({})
              /\ input_'[s] = Null /\ output_'[s] = Null
              /\ input_'[d] = input_[s] /\ output_'[d] = output_[s]
        /\ \A d \in Nodes : (CopyNode(s, d) /\ fault' = "none") =>
              /\ users_count_'[input_[s]] = users_count_[input_[s]] + 1
              /\ users_count_'[output_[s]] = users_count_[output_[s]] + 1
              /\ OtherPortsKept({input_[s], output_[s]})
              /\ input_'[d] = input_[s] /\ output_'[d] = output_[s]
        /\ (Disconnect(s) /\ fault' = "none") =>
              IF input_[s] = Null /\ output_[s] = Null
                THEN OtherPortsKept({})
                ELSE /\ users_count_'[input_[s]] = users_count_[input_[s]] - 1
                     /\ users_count_'[output_[s]] = users_count_[output_[s]] - 1
                     /\ OtherPortsKept({input_[s], output_[s]})]_vars

\* a node made by copy or move holds the only references to its ports, the
\* node it was made from having been destroyed
C16_Witness ==
    /\ fault = "none" /\ NotActivated
    /\ \E s \in Nodes, d \in Nodes :
          /\ objState[s] = "dead" /\ Live(d) /\ d \notin Range(matrix_points)
          /\ input_[d] # Null /\ output_[d] # Null
          /\ users_count_[input_[d]] = 1 /\ users_count_[output_[d]] = 1

\* C17: every Dsp::process call that has begun runs to its end, at which each
\* port of inputs has been refreshed exactly once, each port of outputs has
\* been refreshed and zeroed exactly once and the loop over matrix_points has
\* gone through every gain node.
C17_ProcessRunsToItsEnd ==
    /\ (rtpc = "inputs") ~> (rtpc = "done")
    /\ [](rtpc = "done" =>
            /\ \A p \in Range(inputs) \cup Range(outputs) : refreshed[p] = 1
            /\ \A p \in Range(outputs) : zeroed[p] = 1)

\* C18: whatever the control path did since refAll, the unrefAll that matches
\* it does not fail decrementUsers' assertion; stated for clr(inputs), the step
\* unrefAll begins with.
C18_UnrefAllNeverMeetsZero ==
    [][(Active /\ UnrefInputs) => fault' # "assert"]_vars

\* the step is one of the real-time thread, which moves its position in
\* Dsp::process; it is one between the call's entry and its return
RealTimeStep == rtpc' # rtpc \/ rtk' # rtk \/ rti' # rti
InsideProcess == RealTimeStep /\ rtpc \notin {"idle", "done"}

\* C19: no step of Dsp::process changes a usage counter, a gain, the lifetime
\* of an object, the contents or order of inputs, outputs and matrix_points or
\* a node's input/output reference; and the samples in an input port's buffer
\* are never written: they change only where updateBufferAddress brings in the
\* buffer the backend filled for the block.
C19_ProcessFrame ==
    [][/\ RealTimeStep => UNCHANGED <<users_count_, gain_, objState, inputs, outputs,
                                      matrix_points, input_, output_, stored>>
       /\ InsideProcess => \A p \in InPorts :
                              mem'[p] # mem[p] => refreshed'[p] = refreshed[p] + 1]_vars

\* a block is done in which a gain node, its ports counted once, mixed its
\* input into its output
C19_Witness ==
    /\ rtpc = "done" /\ wrote /\ fault = "none"
    /\ \E n \in Range(matrix_points) :
          /\ users_count_[input_[n]] = 1 /\ users_count_[output_[n]] = 1
          /\ mem[input_[n]][1] > 0
          /\ mem[output_[n]][1] >= mem[input_[n]][1]
          /\ buffer_[input_[n]] = "cur" /\ buffer_[output_[n]] = "cur"

\* C9: in every reachable state, the states between the steps of unrefAll
\* included, the input port a live gain node references is a member of inputs
\* and its output port a member of outputs.  (Stated of the references to ports
\* that still exist; a reference to a destroyed port is C3's case.)
C9_NodePortsAreGraphMembers ==
    \A n \in Nodes : Live(n) =>
        /\ (input_[n] # Null /\ Live(input_[n])) => input_[n] \in Range(inputs)
        /\ (output_[n] # Null /\ Live(output_[n])) => output_[n] \in Range(outputs)

\* decrementUsers is about to be called on s's first object, whose counter is 0
FirstIsZero(s) == s # <<>> /\ Live(Head(s)) /\ users_count_[Head(s)] = 0

\* C10: no usage counter is ever decremented below zero (none wraps to a large
\* value), and a decrementUsers call on a zero counter ends in the error state.
C10_DecrementAtZeroDetected ==
    /\ [](\A x \in Objs : users_count_[x] >= 0)
    /\ [][/\ \A n \in Nodes : (Disconnect(n) /\ FirstIsZero(DtorTargets(n)))
                                 => fault' = "assert"
          /\ (UnrefInputs /\ FirstIsZero(inputs)) => fault' = "assert"
          /\ (UnrefOutputs /\ FirstIsZero(outputs)) => fault' = "assert"
          /\ (UnrefPoints /\ FirstIsZero(matrix_points)) => fault' = "assert"]_vars

\* a destructor reached decrementUsers on a port whose counter was 0
C10_Witness ==
    /\ fault = "assert"
    /\ ctlpc = "idle"
    /\ \E n \in Nodes : Live(n) /\ FirstIsZero(DtorTargets(n))
=============================================================================
